---------------------------- MODULE Spec2Model ----------------------------
(***************************************************************************)
(* Model of the request router of air (src/router.go): a compressed trie   *)
(* of static, param and any (wildcard) nodes, the registration-time path   *)
(* compiler (add / insert) and the lookup engine (route).                  *)
(*                                                                         *)
(* A Go string is a sequence of bytes; a byte is its integer value.        *)
(* A *node is the index of the node in the sequence `tree` (the root,      *)
(* r.tree, is index 1); the nil pointer is 0.                              *)
(***************************************************************************)
EXTENDS Integers, Sequences, FiniteSets, TLC

VARIABLES tree,    \* r.tree: the nodes of the trie
          routes,  \* r.routes: the registration records
          call,    \* the most recent call: [op, method, path, handler]
          ctx,     \* the Context of the most recent route call
          err,     \* the panic message of the most recent add call ("" if none)
          run      \* the route calls of concurrent requests: their locals and Context

vars == <<tree, routes, call, ctx, err, run>>

---------------------------------------------------------------------------
(* Bytes the code compares against. *)
Slash   == 47   \* '/'
Colon   == 58   \* ':'
Star    == 42   \* '*'
Percent == 37   \* '%'
Plus    == 43   \* '+'
Space   == 32   \* ' '

(* Node kinds (iota). *)
staticKind == 0
paramKind  == 1
anyKind    == 2

(* Method tokens; `methods` is the closed set the node stores handlers for. *)
GET    == "GET"
POST   == "POST"
PUT    == "PUT"
DELETE == "DELETE"
methods == <<GET, POST, PUT, DELETE>>

(* Handler references. Nil is the nil HandlerFunc. *)
Nil == "nil"
NotFoundHandler == "NotFoundHandler"
MethodNotAllowedHandler == "MethodNotAllowedHandler"

---------------------------------------------------------------------------
(* Bounds of the model. *)
MaxSegs    == 2   \* segments of a registered pattern
MaxReqSegs == 2   \* segments of a request path
MaxRoutes  == 2   \* successful registrations on one router
MaxPathLen == 6   \* bytes of a pattern in the specification of arbitrary patterns
MaxEscLen  == 4   \* bytes of a request segment in the specification of escaped segments
MaxCalls   == 2   \* route calls in progress at once in the specification of concurrent requests
MaxSteps   == 16  \* labels one route call may pass in that specification
MaxStaticLen == 3 \* bytes after the leading '/' of a path in the specification of static paths

---------------------------------------------------------------------------
(* String helpers (package strings, slicing). *)
Range(s) == {s[i] : i \in DOMAIN s}

\* s[a:] with a 0-based, i.e. the bytes after the first a
From(s, a) == SubSeq(s, a + 1, Len(s))

\* s[:b] with b 0-based, i.e. the first b bytes
Upto(s, b) == SubSeq(s, 1, b)

Count(s, b) == Cardinality({i \in DOMAIN s : s[i] = b})

Contains(s, b) == \E i \in DOMAIN s : s[i] = b

\* strings.LastIndex(s, b) as a 0-based index, -1 if absent
LastIndex(s, b) ==
    IF Contains(s, b)
    THEN (CHOOSE i \in DOMAIN s : s[i] = b /\ \A j \in DOMAIN s : s[j] = b => j <= i) - 1
    ELSE -1

\* number of bytes of s before the first b (Len(s) if none): the scan
\* `for ; i < l && s[i] != b; i++ {}` started at 0
ScanTo(s, b) ==
    IF Contains(s, b)
    THEN (CHOOSE i \in DOMAIN s : s[i] = b /\ \A j \in DOMAIN s : s[j] = b => i <= j) - 1
    ELSE Len(s)

RECURSIVE Split(_, _)
\* strings.Split(s, sep) for a one-byte separator
Split(s, b) ==
    IF ~Contains(s, b) THEN <<s>>
    ELSE LET k == ScanTo(s, b) IN <<Upto(s, k)>> \o Split(From(s, k + 1), b)

RECURSIVE lcpFrom(_, _, _)
lcpFrom(a, b, l) ==
    IF l < Len(a) /\ l < Len(b) /\ a[l + 1] = b[l + 1] THEN lcpFrom(a, b, l + 1) ELSE l

\* the LCP loop stopping one byte short of a common prefix of two bytes or more
LCP_OneShort(search, prefix) ==
    IF lcpFrom(search, prefix, 0) > 1 THEN lcpFrom(search, prefix, 0) - 1
    ELSE lcpFrom(search, prefix, 0)

\* the LCP loop of insert and route
LCP(search, prefix) == lcpFrom(search, prefix, 0)

---------------------------------------------------------------------------
(* node and its accessors *)
emptyMethodHandler == [get |-> Nil, post |-> Nil, put |-> Nil, delete |-> Nil]

\* newNode leaving the handlers it is given behind
newNode_NoHandlers(t, pre, mh, p, c, ppath, pnames) ==
    [kind |-> t, label |-> pre[1], prefix |-> pre, methodHandler |-> emptyMethodHandler,
     parent |-> p, children |-> c, pristinePath |-> ppath, paramNames |-> pnames]

newNode(t, pre, mh, p, c, ppath, pnames) ==
    [kind |-> t, label |-> pre[1], prefix |-> pre, methodHandler |-> mh,
     parent |-> p, children |-> c, pristinePath |-> ppath, paramNames |-> pnames]

\* the tree of newRouter: &node{methodHandler: &methodHandler{}}
rootNode ==
    [kind |-> staticKind, label |-> 0, prefix |-> <<>>, methodHandler |-> emptyMethodHandler,
     parent |-> 0, children |-> <<>>, pristinePath |-> <<>>, paramNames |-> <<>>]

\* the first of the children cs whose index is in hit, 0 (nil) if there is none:
\* `for _, c := range n.children { if ... { return c } }; return nil`
firstChild(cs, hit) ==
    IF hit = {} THEN 0 ELSE cs[CHOOSE i \in hit : \A j \in hit : i <= j]

\* child with the kind comparison negated
child_KindMismatch(t, n, l, k) ==
    LET cs == t[n].children
    IN  firstChild(cs, {i \in DOMAIN cs : t[cs[i]].label = l /\ t[cs[i]].kind # k})

child(t, n, l, k) ==
    LET cs == t[n].children
    IN  firstChild(cs, {i \in DOMAIN cs : t[cs[i]].label = l /\ t[cs[i]].kind = k})

\* childByLabel finding no child
childByLabel_NoneFound(t, n, l) == firstChild(t[n].children, {})

childByLabel(t, n, l) ==
    LET cs == t[n].children
    IN  firstChild(cs, {i \in DOMAIN cs : t[cs[i]].label = l})

childByKind(t, n, k) ==
    LET cs == t[n].children
    IN  firstChild(cs, {i \in DOMAIN cs : t[cs[i]].kind = k})

\* handler answering an unknown method token with the GET handler
handler_UnknownAsGet(node, method) ==
    CASE method = POST   -> node.methodHandler.post
      [] method = PUT    -> node.methodHandler.put
      [] method = DELETE -> node.methodHandler.delete
      [] OTHER           -> node.methodHandler.get

handler(node, method) ==
    CASE method = GET    -> node.methodHandler.get
      [] method = POST   -> node.methodHandler.post
      [] method = PUT    -> node.methodHandler.put
      [] method = DELETE -> node.methodHandler.delete
      [] OTHER           -> Nil

\* addHandler storing a fresh methodHandler that holds h alone
addHandler_Replaces(node, method, h) ==
    CASE method = GET    -> [node EXCEPT !.methodHandler = [emptyMethodHandler EXCEPT !.get = h]]
      [] method = POST   -> [node EXCEPT !.methodHandler = [emptyMethodHandler EXCEPT !.post = h]]
      [] method = PUT    -> [node EXCEPT !.methodHandler = [emptyMethodHandler EXCEPT !.put = h]]
      [] method = DELETE -> [node EXCEPT !.methodHandler = [emptyMethodHandler EXCEPT !.delete = h]]
      [] OTHER           -> node

addHandler(node, method, h) ==
    CASE method = GET    -> [node EXCEPT !.methodHandler.get = h]
      [] method = POST   -> [node EXCEPT !.methodHandler.post = h]
      [] method = PUT    -> [node EXCEPT !.methodHandler.put = h]
      [] method = DELETE -> [node EXCEPT !.methodHandler.delete = h]
      [] OTHER           -> node

checkMethodNotAllowed(node) ==
    IF \E i \in DOMAIN methods : handler(node, methods[i]) # Nil
    THEN MethodNotAllowedHandler
    ELSE NotFoundHandler

addChild(node, c) == [node EXCEPT !.children = Append(@, c)]

---------------------------------------------------------------------------
(* insert: compressed-trie insertion by longest common prefix *)
RECURSIVE insertAt(_, _, _, _, _, _, _, _)
insertAt(t, cn, search, method, h, k, ppath, pnames) ==
    LET node == t[cn]
        sl == Len(search)
        pl == Len(node.prefix)
        l  == LCP(search, node.prefix)
        fresh == Len(t) + 1
    IN  IF l = 0 THEN
            \* At root node
            LET n1 == [node EXCEPT !.label = search[1], !.prefix = search]
                n2 == IF h # Nil
                      THEN [addHandler([n1 EXCEPT !.kind = k], method, h)
                                EXCEPT !.pristinePath = ppath, !.paramNames = pnames]
                      ELSE n1
            IN  [t EXCEPT ![cn] = n2]
        ELSE IF l < pl THEN
            \* Split node
            LET n == newNode(node.kind, From(node.prefix, l), node.methodHandler, cn,
                             node.children, node.pristinePath, node.paramNames)
                reset == [kind |-> staticKind, label |-> node.prefix[1],
                          prefix |-> Upto(node.prefix, l), methodHandler |-> emptyMethodHandler,
                          parent |-> node.parent, children |-> <<fresh>>,
                          pristinePath |-> <<>>, paramNames |-> <<>>]
            IN  IF l = sl THEN
                    \* At parent node
                    LET at == [addHandler([reset EXCEPT !.kind = k], method, h)
                                   EXCEPT !.pristinePath = ppath, !.paramNames = pnames]
                    IN  Append([t EXCEPT ![cn] = at], n)
                ELSE
                    \* Create child node
                    LET m == addHandler(newNode(k, From(search, l), emptyMethodHandler, cn,
                                                <<>>, ppath, pnames), method, h)
                    IN  Append(Append([t EXCEPT ![cn] = addChild(reset, fresh + 1)], n), m)
        ELSE IF l < sl THEN
            LET rest == From(search, l)
                c == childByLabel(t, cn, rest[1])
            IN  IF c # 0 THEN
                    \* Go deeper
                    insertAt(t, c, rest, method, h, k, ppath, pnames)
                ELSE
                    \* Create child node
                    LET m == addHandler(newNode(k, rest, emptyMethodHandler, cn, <<>>,
                                                ppath, pnames), method, h)
                    IN  Append([t EXCEPT ![cn] = addChild(node, fresh)], m)
        ELSE
            \* Node already exists
            IF h # Nil
            THEN [t EXCEPT ![cn] = [addHandler(node, method, h)
                                        EXCEPT !.pristinePath = ppath, !.paramNames = pnames]]
            ELSE t

insert(t, method, path, h, k, ppath, pnames) ==
    insertAt(t, 1, path, method, h, k, ppath, pnames)

---------------------------------------------------------------------------
(* Registration-time validation *)
checkPath(path) ==
    IF path = <<>> THEN "path cannot be empty"
    ELSE IF path[1] # Slash THEN "path must start with /"
    ELSE IF Count(path, Colon) > 1 THEN
        IF \E p \in Range(Split(path, Slash)) : Count(p, Colon) > 1
        THEN "adjacent params in a path must be separated by /"
        ELSE ""
    ELSE IF Contains(path, Star) THEN
        IF Count(path, Star) > 1 THEN "only one * is allowed in a path"
        ELSE IF path[Len(path)] # Star THEN "* can only appear at the end of a path"
        ELSE IF Contains(From(path, LastIndex(path, Slash)), Colon)
             THEN "adjacent param and * in a path must be separated by /"
        ELSE ""
    ELSE ""

RECURSIVE pathWithoutParamNamesFrom(_, _)
\* the loop of pathWithoutParamNames with p[i] (0-based) the next byte examined
pathWithoutParamNamesFrom(p, i) ==
    IF i >= Len(p) THEN p
    ELSE IF p[i + 1] = Colon THEN
        LET j == i + 1
            e == i + ScanTo(From(p, i), Slash)
            q == Upto(p, j) \o From(p, e)
        IN  IF j = Len(q) THEN q ELSE pathWithoutParamNamesFrom(q, j + 1)
    ELSE pathWithoutParamNamesFrom(p, i + 1)

\* pathWithoutParamNames leaving the names in place
pathWithoutParamNames_KeepsNames(p) == p

pathWithoutParamNames(p) == pathWithoutParamNamesFrom(p, 0)

\* checkRoute without the comparison of the literal paths
checkRoute_NoDuplicate(rs, method, path) ==
    {"routes are ambiguous" :
        r \in {x \in rs : x.method = method /\ x.path # path
                          /\ pathWithoutParamNamesFrom(x.path, 0) = pathWithoutParamNamesFrom(path, 0)}}

\* The panics checkRoute can raise: one per conflicting record of r.routes (the
\* map is ranged over in no fixed order, so any of them may be the one raised).
checkRoute(rs, method, path) ==
    {"route is already registered" :
        r \in {x \in rs : x.method = method /\ x.path = path}}
    \cup
    {"routes are ambiguous" :
        r \in {x \in rs : x.method = method /\ x.path # path
                          /\ pathWithoutParamNames(x.path) = pathWithoutParamNames(path)}}

---------------------------------------------------------------------------
(* add: the path pattern compiler. The result is the tree it leaves behind  *)
(* and the panic that ended it ("" if it returned).                         *)
RECURSIVE addFrom(_, _, _, _, _, _, _)
\* the loop of add with path[i] (0-based) the next byte examined
addFrom(t, method, path, i, ppath, pnames, h) ==
    IF i >= Len(path) THEN
        [tree |-> insert(t, method, path, h, staticKind, ppath, pnames), err |-> ""]
    ELSE IF path[i + 1] = Colon THEN
        LET j == i + 1
            t1 == insert(t, method, Upto(path, i), Nil, staticKind, <<>>, <<>>)
            e == i + ScanTo(From(path, i), Slash)
            pname == SubSeq(path, j + 1, e)
        IN  IF \E x \in DOMAIN pnames : pnames[x] = pname THEN
                [tree |-> t1, err |-> "a path cannot have duplicate param names"]
            ELSE
                LET pn == Append(pnames, pname)
                    q == Upto(path, j) \o From(path, e)
                IN  IF j = Len(q) THEN
                        [tree |-> insert(t1, method, q, h, paramKind, ppath, pn), err |-> ""]
                    ELSE
                        addFrom(insert(t1, method, Upto(q, j), Nil, paramKind, ppath, pn),
                                method, q, j + 1, ppath, pn, h)
    ELSE IF path[i + 1] = Star THEN
        LET t1 == insert(t, method, Upto(path, i), Nil, staticKind, <<>>, <<>>)
            pn == Append(pnames, <<Star>>)
        IN  [tree |-> insert(t1, method, Upto(path, i + 1), h, anyKind, ppath, pn), err |-> ""]
    ELSE addFrom(t, method, path, i + 1, ppath, pnames, h)

RECURSIVE insertCalls(_, _, _, _, _)
\* the insert calls the loop of add makes from path[i] (0-based) on, in order, as
\* records of their arguments (the method is that of the add)
insertCalls(path, i, ppath, pnames, h) ==
    IF i >= Len(path) THEN
        <<[path |-> path, h |-> h, kind |-> staticKind, ppath |-> ppath, pnames |-> pnames]>>
    ELSE IF path[i + 1] = Colon THEN
        LET j == i + 1
            static == [path |-> Upto(path, i), h |-> Nil, kind |-> staticKind,
                       ppath |-> <<>>, pnames |-> <<>>]
            e == i + ScanTo(From(path, i), Slash)
            pname == SubSeq(path, j + 1, e)
        IN  IF \E x \in DOMAIN pnames : pnames[x] = pname THEN <<static>>
            ELSE
                LET pn == Append(pnames, pname)
                    q == Upto(path, j) \o From(path, e)
                IN  IF j = Len(q) THEN
                        <<static, [path |-> q, h |-> h, kind |-> paramKind,
                                   ppath |-> ppath, pnames |-> pn]>>
                    ELSE
                        <<static, [path |-> Upto(q, j), h |-> Nil, kind |-> paramKind,
                                   ppath |-> ppath, pnames |-> pn]>>
                        \o insertCalls(q, j + 1, ppath, pn, h)
    ELSE IF path[i + 1] = Star THEN
        <<[path |-> Upto(path, i), h |-> Nil, kind |-> staticKind, ppath |-> <<>>, pnames |-> <<>>],
          [path |-> Upto(path, i + 1), h |-> h, kind |-> anyKind,
           ppath |-> ppath, pnames |-> Append(pnames, <<Star>>)]>>
    ELSE insertCalls(path, i + 1, ppath, pnames, h)

\* add(method, path, h) on the router (t, rs): the set of its possible outcomes
add(t, rs, method, path, h) ==
    IF checkPath(path) # "" THEN {[tree |-> t, err |-> checkPath(path)]}
    ELSE IF checkRoute(rs, method, path) # {}
         THEN {[tree |-> t, err |-> e] : e \in checkRoute(rs, method, path)}
    ELSE {addFrom(t, method, path, 0, path, <<>>, h)}

---------------------------------------------------------------------------
(* unescape: percent-decoding of a captured value *)
ishex(c) == (48 <= c /\ c <= 57) \/ (97 <= c /\ c <= 102) \/ (65 <= c /\ c <= 70)

unhex(c) ==
    IF 48 <= c /\ c <= 57 THEN c - 48
    ELSE IF 97 <= c /\ c <= 102 THEN c - 97 + 10
    ELSE IF 65 <= c /\ c <= 70 THEN c - 65 + 10
    ELSE 0

RECURSIVE unescapeCount(_, _, _)
\* the first loop of unescape from s[i] (0-based) with n '%' counted so far:
\* the number of '%', or -1 where the loop returns "" at a malformed escape
unescapeCount(s, i, n) ==
    IF i >= Len(s) THEN n
    ELSE IF s[i + 1] = Percent THEN
        IF i + 2 >= Len(s) \/ ~ishex(s[i + 2]) \/ ~ishex(s[i + 3])
        THEN -1
        ELSE unescapeCount(s, i + 3, n + 1)
    ELSE unescapeCount(s, i + 1, n)

RECURSIVE unescapeDecode(_, _)
\* the second loop of unescape from s[i] (0-based): the bytes written to t
unescapeDecode(s, i) ==
    IF i >= Len(s) THEN <<>>
    ELSE IF s[i + 1] = Percent
         THEN <<unhex(s[i + 2]) * 16 + unhex(s[i + 3])>> \o unescapeDecode(s, i + 3)
    ELSE IF s[i + 1] = Plus THEN <<Space>> \o unescapeDecode(s, i + 1)
    ELSE <<s[i + 1]>> \o unescapeDecode(s, i + 1)

unescape(s) ==
    LET n == unescapeCount(s, 0, 0)
    IN  IF n = -1 THEN <<>>
        ELSE IF n = 0 THEN s
        ELSE unescapeDecode(s, 0)

---------------------------------------------------------------------------
(* route: the lookup engine. A Context is the record the call writes to;   *)
(* `panic` is the runtime failure that ended the call ("" if it returned). *)
emptyParams == [n \in {} |-> <<>>]

\* the Context a request starts with: nothing captured, handler NotFoundHandler.
\* endNode records the node cn at which the End block was entered (0: never).
NewContext ==
    [ParamValues |-> <<>>, ParamNames |-> <<>>, PristinePath |-> <<>>,
     Handler |-> NotFoundHandler, Params |-> emptyParams, panic |-> "", endNode |-> 0]

IndexOutOfRange == "index out of range"
NilDereference  == "nil pointer dereference"

\* setOrAppend with the comparison of the lengths negated
setOrAppend_Negated(c, names, v) ==
    IF Len(c.ParamValues) # Len(names) THEN
        IF Len(c.ParamValues) = 0
        THEN [c EXCEPT !.panic = "index out of range"]
        ELSE [c EXCEPT !.ParamValues[Len(c.ParamValues)] = v]
    ELSE [c EXCEPT !.ParamValues = Append(@, v)]

\* `if len(ctx.ParamValues) == len(cn.paramNames) { ctx.ParamValues[len-1] = v }
\*  else { ctx.ParamValues = append(ctx.ParamValues, v) }`
setOrAppend(c, names, v) ==
    IF Len(c.ParamValues) = Len(names) THEN
        IF Len(c.ParamValues) = 0
        THEN [c EXCEPT !.panic = IndexOutOfRange]
        ELSE [c EXCEPT !.ParamValues[Len(c.ParamValues)] = v]
    ELSE [c EXCEPT !.ParamValues = Append(@, v)]

\* `for i, v := range ctx.ParamValues { ctx.Params[ctx.ParamNames[i]] = v }`
bindParams(c) ==
    LET k == IF Len(c.ParamValues) <= Len(c.ParamNames)
             THEN Len(c.ParamValues) ELSE Len(c.ParamNames)
        last(n) == CHOOSE i \in 1..k : c.ParamNames[i] = n
                       /\ \A j \in 1..k : c.ParamNames[j] = n => j <= i
        bound == [n \in DOMAIN c.Params \cup {c.ParamNames[i] : i \in 1..k} |->
                    IF \E i \in 1..k : c.ParamNames[i] = n
                    THEN c.ParamValues[last(n)] ELSE c.Params[n]]
    IN  [c EXCEPT !.Params = bound,
                  !.panic = IF Len(c.ParamValues) > Len(c.ParamNames)
                            THEN IndexOutOfRange ELSE @]

\* the End block
routeEnd(t, method, cn, c) ==
    LET node == t[cn]
        c1 == [c EXCEPT !.PristinePath = node.pristinePath,
                        !.ParamNames = node.paramNames,
                        !.Handler = handler(node, method),
                        !.endNode = cn]
    IN  IF c1.Handler = Nil THEN
            LET c2 == [c1 EXCEPT !.Handler = checkMethodNotAllowed(node)]
                a == childByKind(t, cn, anyKind)
            IN  IF a = 0 THEN c2
                ELSE
                    \* Dig further for any
                    LET an == t[a]
                        c3 == [c2 EXCEPT !.Handler = IF handler(an, method) # Nil
                                                     THEN handler(an, method)
                                                     ELSE checkMethodNotAllowed(an),
                                         !.PristinePath = an.pristinePath,
                                         !.ParamNames = an.paramNames]
                        c4 == setOrAppend(c3, an.paramNames, <<>>)
                    IN  IF c4.panic # "" THEN c4 ELSE bindParams(c4)
        ELSE bindParams(c1)

\* `if cn.prefix[len(cn.prefix)-1] == '/'`: "panic" on an empty prefix
endsInSlash(node) ==
    IF Len(node.prefix) = 0 THEN "panic"
    ELSE IF node.prefix[Len(node.prefix)] = Slash THEN "yes" ELSE "no"

\* "Save next"
saveNext(s, node, k) ==
    IF endsInSlash(node) = "yes"
    THEN [s EXCEPT !.nk = k, !.nn = s.cn, !.ns = s.search]
    ELSE s

RECURSIVE routeLoop(_, _, _, _), routeParam(_, _, _, _), routeAny(_, _, _, _)

\* one turn of the for loop; s is [cn, search, nk, nn, ns]
routeLoop(t, method, s, c) ==
    IF s.search = <<>> THEN routeEnd(t, method, s.cn, c)
    ELSE
        LET node == t[s.cn]
            pl == IF node.label # Colon THEN Len(node.prefix) ELSE 0
            l  == IF node.label # Colon THEN LCP(s.search, node.prefix) ELSE 0
        IN  IF l = pl THEN
                \* Continue search
                LET s1 == [s EXCEPT !.search = From(s.search, l)]
                IN  IF s1.search = <<>> THEN routeEnd(t, method, s1.cn, c)
                    ELSE
                        \* Static node
                        LET ch == child(t, s1.cn, s1.search[1], staticKind)
                        IN  IF ch # 0 THEN
                                IF endsInSlash(node) = "panic"
                                THEN [c EXCEPT !.panic = IndexOutOfRange]
                                ELSE routeLoop(t, method,
                                               [saveNext(s1, node, paramKind) EXCEPT !.cn = ch], c)
                            ELSE routeParam(t, method, s1, c)
            ELSE
                LET s1 == [s EXCEPT !.cn = s.nn, !.search = s.ns]
                IN  IF s.nk = paramKind THEN routeParam(t, method, s1, c)
                    ELSE IF s.nk = anyKind THEN routeAny(t, method, s1, c)
                    ELSE c  \* Not found

\* label Param
routeParam(t, method, s, c) ==
    IF s.cn = 0 THEN [c EXCEPT !.panic = NilDereference]
    ELSE
        LET node == t[s.cn]
            ch == childByKind(t, s.cn, paramKind)
        IN  IF ch # 0 THEN
                IF endsInSlash(node) = "panic"
                THEN [c EXCEPT !.panic = IndexOutOfRange]
                ELSE
                    LET s1 == saveNext(s, node, anyKind)
                        i == ScanTo(s.search, Slash)
                    IN  routeLoop(t, method,
                                  [s1 EXCEPT !.cn = ch, !.search = From(s.search, i)],
                                  [c EXCEPT !.ParamValues = Append(@, unescape(Upto(s.search, i)))])
            ELSE routeAny(t, method, s, c)

\* label Any
routeAny(t, method, s, c) ==
    IF s.cn = 0 THEN [c EXCEPT !.panic = NilDereference]
    ELSE
        LET a == childByKind(t, s.cn, anyKind)
        IN  IF a = 0 THEN
                IF s.nn # 0 THEN
                    LET s1 == [s EXCEPT !.cn = s.nn, !.nn = 0, !.search = s.ns]
                    IN  IF s.nk = paramKind THEN routeParam(t, method, s1, c)
                        ELSE IF s.nk = anyKind THEN routeAny(t, method, s1, c)
                        ELSE c
                ELSE c  \* Not found
            ELSE
                LET c1 == setOrAppend(c, t[a].paramNames, unescape(s.search))
                IN  IF c1.panic # "" THEN c1 ELSE routeEnd(t, method, a, c1)

route(t, method, path, c) ==
    routeLoop(t, method, [cn |-> 1, search |-> path, nk |-> staticKind, nn |-> 0, ns |-> <<>>], c)

---------------------------------------------------------------------------
(* route, one label at a time. The locals of a call are the record            *)
(* [pc, method, path, cn, search, nk, nn, ns, c]: pc is the label the call is  *)
(* at ("Loop": the top of the for loop), c its Context. resumedParam and       *)
(* resumedAny count the jumps back to the saved node nn as a param and as an   *)
(* any attempt, steps the labels passed; overlapped tells whether the call     *)
(* took a step while another call was under way.                               *)
Labels == {"Loop", "Param", "Any", "End"}

idle == [pc |-> "idle", method |-> "", path |-> <<>>, cn |-> 0, search |-> <<>>,
         nk |-> staticKind, nn |-> 0, ns |-> <<>>, c |-> NewContext,
         resumedParam |-> 0, resumedAny |-> 0, steps |-> 0, overlapped |-> FALSE]

\* the locals at the entry of route(method, path, ctx)
begin(method, path) ==
    [idle EXCEPT !.pc = "Loop", !.method = method, !.path = path, !.cn = 1,
                 !.search = path]

\* "Save next", for a node other than the one saved starting its counts anew
save(r, node, k) ==
    IF endsInSlash(node) = "yes"
    THEN [saveNext(r, node, k) EXCEPT
            !.resumedParam = IF r.nn = r.cn THEN @ ELSE 0,
            !.resumedAny = IF r.nn = r.cn THEN @ ELSE 0]
    ELSE r

\* `if nk == paramKind { goto Param } else if nk == anyKind { goto Any }; return`
jump(r) ==
    IF r.nk = paramKind THEN [r EXCEPT !.pc = "Param", !.resumedParam = @ + 1]
    ELSE IF r.nk = anyKind THEN [r EXCEPT !.pc = "Any", !.resumedAny = @ + 1]
    ELSE [r EXCEPT !.pc = "done"]

failed(r, p) == [r EXCEPT !.pc = "done", !.c.panic = p]

\* from the top of the for loop to its `continue`, goto or return
stepLoop(t, r) ==
    IF r.search = <<>> THEN [r EXCEPT !.pc = "End"]
    ELSE
        LET node == t[r.cn]
            pl == IF node.label # Colon THEN Len(node.prefix) ELSE 0
            l  == IF node.label # Colon THEN LCP(r.search, node.prefix) ELSE 0
        IN  IF l = pl THEN
                LET r1 == [r EXCEPT !.search = From(r.search, l)]
                IN  IF r1.search = <<>> THEN [r1 EXCEPT !.pc = "End"]
                    ELSE
                        LET ch == child(t, r1.cn, r1.search[1], staticKind)
                        IN  IF ch # 0 THEN
                                IF endsInSlash(node) = "panic"
                                THEN failed(r1, IndexOutOfRange)
                                ELSE [save(r1, node, paramKind) EXCEPT !.cn = ch]
                            ELSE [r1 EXCEPT !.pc = "Param"]
            ELSE jump([r EXCEPT !.cn = r.nn, !.search = r.ns])

\* from the label Param to the `continue`, or on to the label Any
stepParam(t, r) ==
    IF r.cn = 0 THEN failed(r, NilDereference)
    ELSE
        LET node == t[r.cn]
            ch == childByKind(t, r.cn, paramKind)
            i == ScanTo(r.search, Slash)
        IN  IF ch # 0 THEN
                IF endsInSlash(node) = "panic"
                THEN failed(r, IndexOutOfRange)
                ELSE [save(r, node, anyKind) EXCEPT
                        !.pc = "Loop", !.cn = ch, !.search = From(r.search, i),
                        !.c.ParamValues = Append(@, unescape(Upto(r.search, i)))]
            ELSE [r EXCEPT !.pc = "Any"]

\* from the label Any to the goto or return
stepAny(t, r) ==
    IF r.cn = 0 THEN failed(r, NilDereference)
    ELSE
        LET a == childByKind(t, r.cn, anyKind)
            c1 == setOrAppend(r.c, t[a].paramNames, unescape(r.search))
        IN  IF a = 0 THEN
                IF r.nn # 0
                THEN jump([r EXCEPT !.cn = r.nn, !.nn = 0, !.search = r.ns])
                ELSE [r EXCEPT !.cn = 0, !.pc = "done"]
            ELSE IF c1.panic # "" THEN [r EXCEPT !.pc = "done", !.c = c1]
            ELSE [r EXCEPT !.pc = "End", !.cn = a, !.c = c1]

\* the label End
stepEnd(t, r) == [r EXCEPT !.pc = "done", !.c = routeEnd(t, r.method, r.cn, r.c)]

routeStep(t, r) ==
    LET q == [r EXCEPT !.steps = @ + 1]
    IN  CASE r.pc = "Loop"  -> stepLoop(t, q)
          [] r.pc = "Param" -> stepParam(t, q)
          [] r.pc = "Any"   -> stepAny(t, q)
          [] r.pc = "End"   -> stepEnd(t, q)

---------------------------------------------------------------------------
(* Inputs *)
RECURSIVE PathsOf(_, _)
\* the paths "/s1/s2/.../sk" with 1 <= k <= n and every si in segs
PathsOf(segs, n) ==
    IF n = 0 THEN {}
    ELSE LET shorter == PathsOf(segs, n - 1)
         IN  {<<Slash>> \o x : x \in segs} \cup shorter
             \cup {p \o <<Slash>> \o x : p \in shorter, x \in segs}

\* pattern segments a, :x and * fill every position of a pattern
PatternSegs == {<<97>>, <<Colon, 120>>, <<Star>>}

\* the one-segment patterns /:y and /a:x
OtherPatterns == PathsOf({<<Colon, 121>>, <<97, Colon, 120>>}, 1)

\* patterns with a leading slash and at least one segment
SegmentPatterns == PathsOf(PatternSegs, MaxSegs) \cup OtherPatterns

\* registered patterns, with the root path, the empty path and a path without
\* leading slash
Patterns == SegmentPatterns \cup {<<Slash>>, <<>>, <<97>>}

\* request segments: a, b and the empty segment
RequestSegs == {<<97>>, <<98>>, <<>>}

RequestPaths == PathsOf(RequestSegs, MaxReqSegs)

PATCH == "PATCH"
Methods == {GET, POST, PATCH}

\* the handler of the k-th registration of a router: every registration brings
\* its own handler function
Handlers == <<"h1", "h2", "h3", "h4">>

HandlerRefs == Range(Handlers)

---------------------------------------------------------------------------
(* The router as a state machine *)
NoCall == [op |-> "none", method |-> "", path |-> <<>>, handler |-> Nil]

Init ==
    /\ tree = <<rootNode>>
    /\ routes = {}
    /\ call = NoCall
    /\ ctx = NewContext
    /\ err = ""
    /\ run = [i \in 1..MaxCalls |-> idle]

\* A registration: r.add(method, path, h), and on its return the record
\* {method, path, handler} kept in r.routes. A panic of add is not recovered:
\* it ends the program, so nothing is called on the router after it.
Add(method, path, h) ==
    /\ err = ""
    /\ Cardinality(routes) < MaxRoutes
    /\ \E out \in add(tree, routes, method, path, h) :
          /\ tree' = out.tree
          /\ err' = out.err
          /\ routes' = IF out.err = ""
                       THEN routes \cup {[method |-> method, path |-> path, handler |-> h]}
                       ELSE routes
    /\ call' = [op |-> "add", method |-> method, path |-> path, handler |-> h]
    /\ ctx' = NewContext
    /\ UNCHANGED run

\* A request: r.route(method, path, ctx) on a fresh Context.
Route(method, path) ==
    /\ err = ""
    /\ ctx' = route(tree, method, path, NewContext)
    /\ call' = [op |-> "route", method |-> method, path |-> path, handler |-> Nil]
    /\ err' = ""
    /\ UNCHANGED <<tree, routes, run>>

Next ==
    \/ \E method \in Methods, path \in Patterns :
            Add(method, path, Handlers[Cardinality(routes) + 1])
    \/ \E method \in Methods, path \in RequestPaths : Route(method, path)

Spec == Init /\ [][Next]_vars

---------------------------------------------------------------------------
(* The first registration of a router, for an arbitrary byte string as pattern *)
PatternBytes == {Slash, Colon, Star, 97}

RECURSIVE BytesUpTo(_)
\* the strings of at most n pattern bytes
BytesUpTo(n) ==
    IF n = 0 THEN {<<>>}
    ELSE LET shorter == BytesUpTo(n - 1)
         IN  shorter \cup {Append(x, b) : x \in {y \in shorter : Len(y) = n - 1},
                                          b \in PatternBytes}

AddFirst(path) ==
    /\ routes = {}
    /\ Add(GET, path, Handlers[1])

NextPath == \E path \in BytesUpTo(MaxPathLen) : AddFirst(path)

SpecPath == Init /\ [][NextPath]_vars

---------------------------------------------------------------------------
(* Requests with escaped segments, on the router that holds GET /:x *)
Digit4 == 52    \* '4', a hex digit
LetterA == 97   \* 'a', a hex digit
LetterG == 103  \* 'g', not a hex digit

EscapeBytes == {Percent, Plus, Digit4, LetterA, LetterG}

RECURSIVE SegmentsUpTo(_)
\* the strings of at most n bytes of EscapeBytes
SegmentsUpTo(n) ==
    IF n = 0 THEN {<<>>}
    ELSE LET shorter == SegmentsUpTo(n - 1)
         IN  shorter \cup {Append(x, b) : x \in {y \in shorter : Len(y) = n - 1},
                                          b \in EscapeBytes}

ParamPattern == <<Slash, Colon, 120>>

NextEscape ==
    \/ AddFirst(ParamPattern)
    \/ \E seg \in SegmentsUpTo(MaxEscLen) : Route(GET, <<Slash>> \o seg)

SpecEscape == Init /\ [][NextEscape]_vars

---------------------------------------------------------------------------
(* Concurrent requests: once the routes are registered, up to MaxCalls route   *)
(* calls, each on a Context of its own, run interleaved label by label.        *)
Calls == 1..MaxCalls

Serving == \E i \in Calls : run[i].pc # "idle"

UnderWay(r) == r.pc \in Labels /\ r.steps > 0

\* a registration, before serving begins
Register(path) ==
    /\ ~Serving
    /\ Add(GET, path, Handlers[Cardinality(routes) + 1])

\* call i enters r.route(GET, path, ctx) with a fresh Context
Begin(i, path) ==
    /\ err = ""
    /\ run[i].pc \in {"idle", "done"}
    /\ run' = [run EXCEPT ![i] = begin(GET, path)]
    /\ UNCHANGED <<tree, routes, call, ctx, err>>

\* a step in which all calls write to the Context of call 1
Step_SharedContext(i) ==
    /\ run[i].pc \in Labels
    /\ run[i].steps < MaxSteps
    /\ LET out == routeStep(tree, [run[i] EXCEPT !.c = run[1].c])
       IN  run' = [j \in Calls |-> IF j = i THEN out
                                   ELSE IF j = 1 THEN [run[1] EXCEPT !.c = out.c]
                                   ELSE run[j]]
    /\ UNCHANGED <<tree, routes, call, ctx, err>>

\* call i runs from its label to the next; route assigns to its locals and to
\* its ctx only, never through a node pointer
Step(i) ==
    /\ run[i].pc \in Labels
    /\ run[i].steps < MaxSteps
    /\ run' = [run EXCEPT ![i] =
                 [routeStep(tree, run[i]) EXCEPT
                    !.overlapped = @ \/ \E j \in Calls \ {i} : UnderWay(run[j])]]
    /\ UNCHANGED <<tree, routes, call, ctx, err>>

NextConcurrent ==
    \/ \E path \in SegmentPatterns : Register(path)
    \/ \E i \in Calls, path \in RequestPaths : Begin(i, path)
    \/ \E i \in Calls : Step(i)

SpecConcurrent == Init /\ [][NextConcurrent]_vars

---------------------------------------------------------------------------
(* Static routes: registrations of pure-static paths for GET, then lookups of  *)
(* such paths by one route call, label by label.                               *)
StaticBytes == {97, 98, Slash}

RECURSIVE StaticUpTo(_)
\* the non-empty strings of at most n static bytes
StaticUpTo(n) ==
    IF n = 0 THEN {}
    ELSE LET shorter == StaticUpTo(n - 1)
         IN  shorter \cup {<<b>> : b \in StaticBytes}
                     \cup {Append(x, b) : x \in shorter, b \in StaticBytes}

StaticPaths == {<<Slash>> \o x : x \in StaticUpTo(MaxStaticLen)}

NextStatic ==
    \/ \E path \in StaticPaths : Register(path)
    \/ \E path \in StaticPaths : Begin(1, path)
    \/ Step(1)

SpecStatic == Init /\ [][NextStatic]_vars

---------------------------------------------------------------------------
(* What the claims speak of *)
Recognized == Range(methods)

\* the outcome of the most recent route call
Status ==
    IF ctx.panic # "" THEN "Panic"
    ELSE IF ctx.Handler = NotFoundHandler THEN "NotFound"
    ELSE IF ctx.Handler = MethodNotAllowedHandler THEN "MethodNotAllowed"
    ELSE "Matched"

Routed == call.op = "route"

\* the registered route whose handler the lookup returned
MatchedRoutes == {r \in routes : Status = "Matched" /\ r.handler = ctx.Handler}

IsStatic(p) == ~Contains(p, Colon) /\ ~Contains(p, Star)

RECURSIVE Match(_, _, _)
\* Pattern matching as the path syntax defines it: a literal byte matches itself,
\* ':name' matches one segment (up to the next '/'; an empty one only if emptyOk),
\* '*' matches the remainder. The result tells whether pat matches all of path and
\* the segments of path standing at the parameters of pat.
Match(pat, path, emptyOk) ==
    IF pat = <<>> THEN [ok |-> path = <<>>, values |-> <<>>]
    ELSE IF pat[1] = Colon THEN
        LET k == ScanTo(path, Slash)
            rest == Match(From(pat, ScanTo(pat, Slash)), From(path, k), emptyOk)
        IN  [ok |-> rest.ok /\ (k > 0 \/ emptyOk), values |-> <<Upto(path, k)>> \o rest.values]
    ELSE IF pat[1] = Star THEN [ok |-> TRUE, values |-> <<path>>]
    ELSE IF path # <<>> /\ path[1] = pat[1] THEN Match(Tail(pat), Tail(path), emptyOk)
    ELSE [ok |-> FALSE, values |-> <<>>]

RECURSIVE NamesOf(_)
\* the ordered parameter names of a pattern, "*" for its wildcard
NamesOf(pat) ==
    IF pat = <<>> THEN <<>>
    ELSE IF pat[1] = Colon
         THEN <<SubSeq(pat, 2, ScanTo(pat, Slash))>> \o NamesOf(From(pat, ScanTo(pat, Slash)))
    ELSE IF pat[1] = Star THEN <<<<Star>>>>
    ELSE NamesOf(Tail(pat))

Decoded(values) == [i \in DOMAIN values |-> unescape(values[i])]

\* the map that binds names[i] to values[i]
Binding(names, values) ==
    [n \in Range(names) |-> values[CHOOSE i \in DOMAIN names : names[i] = n]]

---------------------------------------------------------------------------
\* C1. Static beats param and wildcard: when a pure-static route with path p is
\* registered for a recognized method m, route(m, p) ends Matched with that
\* route's handler and binds no parameter, whatever else is registered for m.
C1_StaticBeatsParam ==
    \A r \in routes :
        (Routed /\ r.method = call.method /\ r.path = call.path
                /\ r.method \in Recognized /\ IsStatic(r.path))
        => /\ Status = "Matched"
           /\ ctx.Handler = r.handler
           /\ ctx.ParamValues = <<>>
           /\ ctx.Params = emptyParams

\* a lookup of a registered static path that a param or wildcard route of the
\* same method matches too
C1_Witness ==
    /\ Routed
    /\ Status = "Matched"
    /\ \E r, q \in routes :
          /\ r.method = call.method /\ r.path = call.path /\ IsStatic(r.path)
          /\ ctx.Handler = r.handler
          /\ q.method = r.method /\ ~IsStatic(q.path)
          /\ Match(q.path, call.path, FALSE).ok

\* C2. Param binding: whenever route ends Matched at a route with parameter names
\* n1..nk, exactly k values are captured, the i-th is the decoded segment of the
\* request path at the i-th parameter, and the name->value map binds every ni to
\* it; no value of an abandoned branch remains.
C2_ParamBinding ==
    \A r \in MatchedRoutes :
        Routed =>
            LET m == Match(r.path, call.path, TRUE)
            IN  /\ m.ok
                /\ ctx.ParamValues = Decoded(m.values)
                /\ Len(ctx.ParamValues) = Len(NamesOf(r.path))
                /\ ctx.Params = Binding(NamesOf(r.path), Decoded(m.values))

\* C3. NotFound only when nothing matches: if some pattern registered for the
\* (recognized) request method matches the whole request path, the result of
\* route is not NotFound.
C3_NotFoundOnlyIfNoMatch ==
    (Routed /\ call.method \in Recognized
            /\ \E r \in routes : r.method = call.method /\ Match(r.path, call.path, FALSE).ok)
    => Status # "NotFound"

\* C4. 405 versus 404: when the request path is consumed at a node without a
\* handler for the request method but with one for another method, route reports
\* MethodNotAllowed, also when the node has a wildcard child that the fallback
\* examines (and that has no handler for the request method either); when no node
\* consumes the path, it reports NotFound.
C4_MethodNotAllowed ==
    (Routed /\ ctx.panic = "") =>
        /\ (/\ ctx.endNode # 0
            /\ handler(tree[ctx.endNode], call.method) = Nil
            /\ \E m \in Recognized : handler(tree[ctx.endNode], m) # Nil
            /\ \A i \in DOMAIN tree[ctx.endNode].children :
                  LET c == tree[tree[ctx.endNode].children[i]]
                  IN  c.kind = anyKind => handler(c, call.method) = Nil)
           => Status = "MethodNotAllowed"
        /\ ctx.endNode = 0 => Status = "NotFound"

\* C5. Wildcard capture: whenever route ends Matched at a wildcard route PREFIX*,
\* the last captured value, bound to "*", is the decoded remainder of the request
\* path after the part PREFIX consumed (possibly empty, possibly with '/').
C5_WildcardCapture ==
    \A r \in MatchedRoutes :
        (Routed /\ Contains(r.path, Star)) =>
            LET m == Match(r.path, call.path, TRUE)
                rem == unescape(m.values[Len(m.values)])
            IN  /\ m.ok
                /\ ctx.ParamValues # <<>>
                /\ ctx.ParamValues[Len(ctx.ParamValues)] = rem
                /\ <<Star>> \in DOMAIN ctx.Params
                /\ ctx.Params[<<Star>>] = rem

\* wildcard lookups with an empty remainder, with a remainder holding '/', and
\* one reached by backtracking from a param attempt
C5_Witness ==
    /\ Routed
    /\ \E r \in MatchedRoutes :
          /\ Contains(r.path, Star)
          /\ \/ ctx.ParamValues[Len(ctx.ParamValues)] = <<>>
             \/ Contains(ctx.ParamValues[Len(ctx.ParamValues)], Slash)

\* C6. Several methods on one path: once (m1, p, h1) is registered, registering
\* (m2, p, h2) for another recognized method succeeds; and on the router that holds
\* just these two routes, route(m1, p') returns h1 and route(m2, p') returns h2 for
\* every p' that p matches.
C6_SeveralMethods ==
    /\ (call.op = "add" /\ call.method \in Recognized
          /\ (\E r \in routes : r.path = call.path /\ r.method # call.method
                                /\ r.method \in Recognized)
          /\ \A r \in routes : r.method = call.method => r.handler = call.handler)
       => err = ""
    /\ \A r1, r2 \in routes :
          (/\ Routed
           /\ routes = {r1, r2} /\ r1.path = r2.path /\ r1.method # r2.method
           /\ r1.method \in Recognized /\ r2.method \in Recognized
           /\ call.method = r1.method
           /\ Match(r1.path, call.path, FALSE).ok)
          => (Status = "Matched" /\ ctx.Handler = r1.handler)

\* a lookup of the method registered first, after a second method was attached
C6_Witness ==
    /\ Routed
    /\ Status = "Matched"
    /\ \E r1, r2 \in routes :
          /\ routes = {r1, r2} /\ r1.path = r2.path /\ r1.method # r2.method
          /\ r1.handler = Handlers[1] /\ ctx.Handler = r1.handler

DuplicateRoute == "route is already registered"
AmbiguousRoute == "routes are ambiguous"

\* C7. Duplicate rejection: an add with the method and the literal path of an
\* earlier successful add panics with the duplicate-route error and leaves the
\* trie, with the handler of the first call, as it was.
C7_DuplicateRejected ==
    [][(call'.op = "add"
          /\ \E r \in routes : r.method = call'.method /\ r.path = call'.path)
       => (err' = DuplicateRoute /\ tree' = tree /\ routes' = routes)]_vars

C7_Witness ==
    /\ call.op = "add"
    /\ err = DuplicateRoute
    /\ \E r \in routes : r.method = call.method /\ r.path = call.path
                         /\ r.handler # call.handler

RECURSIVE Skeleton(_)
\* a pattern with its parameter names erased
Skeleton(pat) ==
    IF pat = <<>> THEN <<>>
    ELSE IF pat[1] = Colon THEN <<Colon>> \o Skeleton(From(pat, ScanTo(pat, Slash)))
    ELSE <<pat[1]>> \o Skeleton(Tail(pat))

SameSkeleton(p, q) == p # q /\ Skeleton(p) = Skeleton(q)

\* C8. Ambiguity rejection: an add whose path differs only in parameter names
\* from that of an earlier successful add for the same method panics with the
\* ambiguity error; when the earlier adds with such a path are all for other
\* methods, the add is accepted.
C8_AmbiguityRejected ==
    [][call'.op = "add" =>
        /\ (\E r \in routes : r.method = call'.method /\ SameSkeleton(r.path, call'.path))
           => (err' = AmbiguousRoute /\ tree' = tree /\ routes' = routes)
        /\ (/\ \E r \in routes : r.method # call'.method /\ SameSkeleton(r.path, call'.path)
            /\ \A r \in routes : r.method # call'.method)
           => err' = ""]_vars

C8_Witness ==
    /\ call.op = "add"
    /\ err = AmbiguousRoute
    /\ \E r \in routes : r.method = call.method /\ SameSkeleton(r.path, call.path)

\* the same pair of patterns, accepted under different methods
C8_WitnessAccepted ==
    /\ call.op = "add"
    /\ err = ""
    /\ \E r \in routes : r.method # call.method /\ SameSkeleton(r.path, call.path)

\* C10. A rejected registration changes nothing: whenever add panics, the trie is
\* exactly as it was before the call.
C10_RejectedAddChangesNothing ==
    [][(call'.op = "add" /\ err' # "") => tree' = tree]_vars

\* C9. Wildcard placement is validated for every pattern: add panics on a pattern
\* with more than one '*' or with a '*' that is not its last byte, however many
\* params it holds; no accepted pattern has text after its '*'.
C9_WildcardPlacement ==
    (call.op = "add" /\ err = "") =>
        /\ Count(call.path, Star) <= 1
        /\ Contains(call.path, Star) => call.path[Len(call.path)] = Star

\* every '%' of s is followed by two hex digits
WellFormed(s) ==
    \A i \in DOMAIN s :
        s[i] = Percent => (i + 2 <= Len(s) /\ ishex(s[i + 1]) /\ ishex(s[i + 2]))

RECURSIVE Unescaped(_)
\* the decoding rule as stated: %XX -> the byte XX, '+' -> space, else literal
Unescaped(s) ==
    IF s = <<>> THEN <<>>
    ELSE IF s[1] = Percent
         THEN <<unhex(s[2]) * 16 + unhex(s[3])>> \o Unescaped(From(s, 3))
    ELSE IF s[1] = Plus THEN <<Space>> \o Unescaped(Tail(s))
    ELSE <<s[1]>> \o Unescaped(Tail(s))

\* C11. Percent-decoding of captured values: the value exposed for a captured
\* segment s is "" when s holds a '%' not followed by two hex digits, and else s
\* with every %XX replaced by the byte XX and every '+' by a space, whether or not
\* s holds a '%'.
C11_PercentDecoding ==
    (Routed /\ Status = "Matched") =>
        LET s == Tail(call.path)
        IN  ctx.ParamValues = <<IF WellFormed(s) THEN Unescaped(s) ELSE <<>>>>

\* the handlers stored in the nodes of a trie
StoredHandlers(t) ==
    {handler(t[n], m) : n \in DOMAIN t, m \in Recognized} \ {Nil}

C14_LeadingSlashNormalised ==
    [][(call'.op = "add" /\ call'.path # <<>> /\ call'.path[1] # Slash)
       => \E out \in add(tree, routes, call'.method, <<Slash>> \o call'.path, call'.handler) :
             err' = out.err /\ tree' = out.tree]_vars

\* C15. Lookup never aborts: on every trie built by successful adds, for every
\* request method and path, route on a fresh Context returns without a runtime
\* failure (no index out of range, no nil dereference).
C15_LookupNeverAborts ==
    Routed => ctx.panic = ""

\* C16. Metadata belongs to the matched route: whenever route ends Matched with
\* the handler of a registered route, the PristinePath and ParamNames it returns
\* are the pattern and the parameter names of that route's add call.
C16_MetadataOfMatchedRoute ==
    \A r \in MatchedRoutes :
        (Routed /\ ctx.panic = "") =>
            /\ ctx.PristinePath = r.path
            /\ ctx.ParamNames = NamesOf(r.path)

\* the children of node n of trie t
ChildrenOf(t, n) == {t[n].children[i] : i \in DOMAIN t[n].children}

\* the node that holds n in its children list
Holder(t, n) == CHOOSE p \in DOMAIN t : n \in ChildrenOf(t, p)

RECURSIVE PrefixPath(_, _)
\* the concatenation of the prefixes on the path from the root to node n
PrefixPath(t, n) ==
    IF n = 1 THEN t[1].prefix ELSE PrefixPath(t, Holder(t, n)) \o t[n].prefix

HoldsHandler(node) == \E m \in Recognized : handler(node, m) # Nil

\* C18. Sibling disambiguation: after any sequence of add calls, every node but an
\* unset root has a non-empty prefix that starts with its label; the children of
\* a node have pairwise different labels, at most one is of kind param and at most
\* one of kind any; a child is of kind param exactly when its prefix is ":" and of
\* kind any exactly when its prefix is "*".
C18_SiblingInvariant ==
    \A n \in DOMAIN tree :
        LET cs == tree[n].children
        IN  /\ (n # 1 \/ tree[n].prefix # <<>>)
                => (tree[n].prefix # <<>> /\ tree[n].prefix[1] = tree[n].label)
            /\ \A i, j \in DOMAIN cs : i # j => tree[cs[i]].label # tree[cs[j]].label
            /\ Cardinality({i \in DOMAIN cs : tree[cs[i]].kind = paramKind}) <= 1
            /\ Cardinality({i \in DOMAIN cs : tree[cs[i]].kind = anyKind}) <= 1
            /\ \A i \in DOMAIN cs :
                  /\ tree[cs[i]].kind = paramKind <=> tree[cs[i]].prefix = <<Colon>>
                  /\ tree[cs[i]].kind = anyKind <=> tree[cs[i]].prefix = <<Star>>

\* a node with a param and an any child, next to a static node below the root
C18_Witness ==
    /\ call.op = "add"
    /\ \E n \in DOMAIN tree :
          /\ \E c \in ChildrenOf(tree, n) : tree[c].kind = paramKind
          /\ \E c \in ChildrenOf(tree, n) : tree[c].kind = anyKind
    /\ \E n \in DOMAIN tree : n # 1 /\ tree[n].kind = staticKind

\* C19. Prefix concatenation: after any sequence of successful add calls, for
\* every node that holds a handler, the prefixes from the root to the node
\* concatenate to the node's pristinePath with every ':name' replaced by ':' and
\* the '*' kept.
C19_PrefixConcatenation ==
    \A n \in DOMAIN tree :
        (err = "" /\ HoldsHandler(tree[n]))
        => PrefixPath(tree, n) = Skeleton(tree[n].pristinePath)

\* the flat map a trie stands for: the (root-to-node string, method, handler)
\* triples of the handlers its nodes hold
FlatMap(t) ==
    {e \in {<<PrefixPath(t, n), m, handler(t[n], m)>> : n \in DOMAIN t, m \in Recognized} :
        e[3] # Nil}

RECURSIVE TreesAfter(_, _, _)
\* the tries after each of the insert calls, in order, from trie t on
TreesAfter(t, method, calls) ==
    IF calls = <<>> THEN <<>>
    ELSE LET c == Head(calls)
             u == insert(t, method, c.path, c.h, c.kind, c.ppath, c.pnames)
         IN  <<u>> \o TreesAfter(u, method, Tail(calls))

\* the insert call c for method takes the flat map from before to after
InsertRefines(before, after, method, c) ==
    /\ \A e \in before : (e[1] # c.path \/ e[2] # method \/ c.h = Nil) => e \in after
    /\ \A e \in after \ before : e = <<c.path, method, c.h>>

\* C17. The trie refines a flat map from sentinel-substituted path to per-method
\* handlers: every insert call that add makes changes the handler found at
\* root-to-node string s for method m' only when s is its path, m' its method and
\* its handler is not nil; every other handler is still found at its string
\* afterwards, whichever branch the call takes.
C17_TrieRefinesFlatMap ==
    [][(call'.op = "add" /\ checkPath(call'.path) = ""
            /\ checkRoute(routes, call'.method, call'.path) = {})
       => \A calls \in {insertCalls(call'.path, 0, call'.path, <<>>, call'.handler)} :
          \A trees \in {<<tree>> \o TreesAfter(tree, call'.method, calls)} :
              /\ tree' = trees[Len(trees)]
              /\ \A k \in DOMAIN calls :
                    \A before \in {FlatMap(trees[k])}, after \in {FlatMap(trees[k + 1])} :
                        InsertRefines(before, after, call'.method, calls[k])]_vars

\* a split of a static node that holds a handler: the handler registered first
\* is on a static child of the node that holds the one registered second
C17_Witness ==
    /\ call.op = "add"
    /\ err = ""
    /\ \E n \in DOMAIN tree : \E c \in ChildrenOf(tree, n) :
          /\ tree[n].kind = staticKind /\ tree[c].kind = staticKind
          /\ handler(tree[n], GET) = Handlers[2]
          /\ handler(tree[c], GET) = Handlers[1]

Classified(c) ==
    /\ c.panic = ""
    /\ \/ c.Handler \in HandlerRefs
       \/ c.Handler = MethodNotAllowedHandler
       \/ c.Handler = NotFoundHandler

\* C20. Lookup terminates in a classified result: a route call passes finitely
\* many labels (it never runs into the cap on its steps), jumps back to its saved
\* backtrack node at most once as a param attempt and at most once as an any
\* attempt, and ends Matched, MethodNotAllowed or NotFound.
C20_LookupTerminates ==
    \A i \in Calls :
        /\ run[i].pc \in Labels => run[i].steps < MaxSteps
        /\ run[i].resumedParam <= 1
        /\ run[i].resumedAny <= 1
        /\ run[i].pc = "done" => Classified(run[i].c)

IsPrefixOf(p, q) == Len(p) <= Len(q) /\ Upto(q, Len(p)) = p

\* a static node without children that holds h for GET alone
IsLeaf(node, pre, h) ==
    /\ node.kind = staticKind
    /\ node.prefix = pre
    /\ node.children = <<>>
    /\ node.methodHandler = [emptyMethodHandler EXCEPT !.get = h]

\* C21. Longest-prefix sharing: two distinct pure-static paths x and y, neither a
\* prefix of the other, registered in either order on an empty router, give
\* exactly one static root whose prefix is their longest common prefix, without
\* handler, and two static leaves with the remaining suffixes and the handlers;
\* a lookup of x ends at the leaf of x and never has the leaf of y as its node.
C21_LongestPrefixSharing ==
    \A rx, ry \in routes :
        (/\ err = ""
         /\ routes = {rx, ry}
         /\ rx.handler = Handlers[1] /\ ry.handler = Handlers[2]
         /\ ~IsPrefixOf(rx.path, ry.path) /\ ~IsPrefixOf(ry.path, rx.path))
        => LET l == LCP(rx.path, ry.path)
           IN  /\ Len(tree) = 3
               /\ tree[1].kind = staticKind
               /\ tree[1].prefix = Upto(rx.path, l)
               /\ ~HoldsHandler(tree[1])
               /\ tree[1].children = <<2, 3>>
               /\ IsLeaf(tree[2], From(rx.path, l), rx.handler)
               /\ IsLeaf(tree[3], From(ry.path, l), ry.handler)
               /\ \A i \in Calls :
                     /\ run[i].path = rx.path
                           => /\ run[i].cn # 3
                              /\ run[i].pc = "done"
                                    => (run[i].c.Handler = rx.handler /\ run[i].c.endNode = 2)
                     /\ run[i].path = ry.path
                           => /\ run[i].cn # 2
                              /\ run[i].pc = "done"
                                    => (run[i].c.Handler = ry.handler /\ run[i].c.endNode = 3)

\* a finished lookup of the path registered second, below a shared root of two
\* bytes or more that ends in '/'
C21_Witness ==
    /\ run[1].pc = "done"
    /\ run[1].c.Handler = Handlers[2]
    /\ Len(tree) = 3
    /\ Len(tree[1].prefix) >= 2
    /\ endsInSlash(tree[1]) = "yes"
    /\ \E rx, ry \in routes :
          /\ routes = {rx, ry} /\ ry.handler = Handlers[2] /\ run[1].path = ry.path
          /\ ~IsPrefixOf(rx.path, ry.path) /\ ~IsPrefixOf(ry.path, rx.path)

\* C22. Parent back-references stay consistent: after any sequence of insert
\* calls, every node in the children list of a node n has n as its parent, and
\* the root has none; so the children moved below the suffix node of a split
\* point at that node.
C22_ParentBackReferences ==
    /\ tree[1].parent = 0
    /\ \A n \in DOMAIN tree : \A c \in ChildrenOf(tree, n) : tree[c].parent = n

=============================================================================
